---- MODULE Spec2Model ----
(***************************************************************************)
(* A model of gnnshapes' trainingscript.py and utils.py.                   *)
(*                                                                         *)
(*   Spec       the memoization layer (cache_return_value / clear_cache)   *)
(*              and two LindseysTrainingScript sessions sharing it, over a *)
(*              small file system of dataset directories;                  *)
(*   SpecNoClear  the same in a process that never calls clear_cache;      *)
(*   SpecCache  get_full_dataset and clear_cache over raw sample files     *)
(*              that are damaged and repaired;                             *)
(*   SpecSplit  the train/validation split of get_full_dataset as a        *)
(*              function of the dataset length and the debug flag;         *)
(*   SpecGraph  BasicShapeDataset.process on one raw sample;               *)
(*   SpecCommands  run_multiple_commands of utils.py.                      *)
(*                                                                         *)
(* Python is single threaded here: every method call is one atomic step,   *)
(* including the memoized calls it makes.                                  *)
(***************************************************************************)
EXTENDS Integers, Sequences, FiniteSets, TLC

VARIABLES
    \* the memoization layer: per wrapper the attributes wrapper.is_called and
    \* wrapper.cached_return_value, and the module global CACHED_FUNCTIONS
    is_called, cached_return_value, CACHED_FUNCTIONS,
    \* the attributes of each LindseysTrainingScript instance
    debug, dataset_path, load_checkpoint,
    \* the processed/ directory of each dataset directory, and the raw sample
    \* files of it that cannot be processed
    processed, corrupt,
    \* history: per wrapper the latest of {cleared, body returned, body raised};
    \* and the record of the latest call (operation, self, outcome, event log)
    hist, last,
    \* SpecSplit: the dataset length and debug flag, and the split computed
    split_in, split_out,
    \* SpecGraph: the raw sample (x, y) and the record process() builds of it
    sample, graph,
    \* SpecCommands: the arguments of run_multiple_commands and what it did
    cmd_in, cmd_out

vars == <<is_called, cached_return_value, CACHED_FUNCTIONS, debug, dataset_path,
          load_checkpoint, processed, corrupt, hist, last, split_in, split_out,
          sample, graph, cmd_in, cmd_out>>

sessionVars == <<is_called, cached_return_value, CACHED_FUNCTIONS, debug,
                 dataset_path, load_checkpoint, processed, corrupt, hist, last>>
splitVars == <<split_in, split_out>>
graphVars == <<sample, graph>>
cmdVars == <<cmd_in, cmd_out>>

(***************************************************************************)
(* The environment: dataset directories and checkpoint files.              *)
(***************************************************************************)
\* Number of raw sample files under the debug test set and the full data set
\* (a fifth of the latter is the ten samples test() evaluates).
NumRawTest == 10
NumRawFull == 50

\* A path is the sequence of the words it is made of; `'testset' in path` is
\* modelled as one of the words being "testset".
TestPath == <<"data", "basicshapesv1", "testset">>
FullPath == <<"data", "basicshapesv1">>
OtherPath == <<"data", "elsewhere">>
Paths == {TestPath, FullPath, OtherPath}

\* osp.isdir: the two data sets exist, OtherPath does not.
Dirs == {TestPath, FullPath}
isdir(path) == path \in Dirs

NumRaw(path) == IF path = TestPath THEN NumRawTest ELSE NumRawFull

\* `word in path`
Contains(path, word) == \E i \in DOMAIN path : path[i] = word

\* load_checkpoint is None, a checkpoint that loads, or one that does not
\* (missing file, or parameter shapes that do not fit the model).
None == "None"
GoodCheckpoint == "model_checkpoint_014.pth.tar"
BadCheckpoint == "unreadable.pth.tar"
Checkpoints == {None, GoodCheckpoint, BadCheckpoint}

Sessions == {"A", "B"}
Wrappers == {"get_full_dataset", "get_trainer"}

\* The absent attribute (hasattr(wrapper, 'cached_return_value') is False), and
\* the value of a call that raised.
NoValue == [kind |-> "absent"]

(***************************************************************************)
(* Calls thread a store record st through the code: the memoization        *)
(* attributes, the processed directories and the event log of the call.    *)
(* A call yields [st, exc, val]: exc is "none" on a normal return.         *)
(***************************************************************************)
Raise(st, e) == [st |-> st, exc |-> e, val |-> NoValue]
Return(st, v) == [st |-> st, exc |-> "none", val |-> v]
Log(st, e) == [st EXCEPT !.events = Append(@, e)]

(***************************************************************************)
(* cache_return_value, trainingscript.py:28-45                             *)
(***************************************************************************)
\* line 35 without its hasattr test
wrapper_miss_called_only(st, w) ==
    ~st.is_called[w]

\* line 35: the body is to be executed
wrapper_miss(st, w) ==
    ~st.is_called[w] \/ st.cached[w] = NoValue

\* wrapper_enter without line 36: the wrapper is never marked as called
wrapper_enter_unmarked(st, w) ==
    Log(st, <<"exec", w>>)

\* line 36, and entering func at line 37
wrapper_enter(st, w) ==
    Log([st EXCEPT !.is_called[w] = TRUE], <<"exec", w>>)

\* lines 37-38 after func: an exception leaves the function before the
\* assignment and the append; otherwise the value is stored and the wrapper
\* registered.
wrapper_store(r, w) ==
    IF r.exc # "none"
    THEN [r EXCEPT !.st.hist[w] = "raised"]
    ELSE [r EXCEPT !.st.cached[w] = r.val,
                   !.st.reg = Append(@, w),
                   !.st.hist[w] = "stored"]

\* lines 39-44: the stored value is returned
wrapper_hit(st, w) ==
    Return(Log(st, <<"hit", w>>), st.cached[w])

\* clear_cache, lines 47-51
clear_cache(st) ==
    [st EXCEPT !.is_called = [w \in Wrappers |->
                                 IF \E i \in DOMAIN st.reg : st.reg[i] = w
                                 THEN FALSE ELSE @[w]],
               !.reg = <<>>,
               !.hist = [w \in Wrappers |-> "cleared"]]

(***************************************************************************)
(* The processed/ directory of a data set: whether it exists, the set      *)
(* `files` of the sample indices i whose data_i.pt is there, and the set   *)
(* `written` of those the latest step wrote.                               *)
(***************************************************************************)
RawIndices(path) == 0..(NumRaw(path) - 1)

NoProcessed(path) ==
    [exists |-> FALSE, files |-> {}, written |-> {}]
OldProcessed(path) ==
    [exists |-> TRUE, files |-> RawIndices(path), written |-> {}]

\* A new step begins: nothing is written by it yet.
Age(pr) ==
    [p \in DOMAIN pr |-> [pr[p] EXCEPT !.written = {}]]

\* lines 149-152 without the rmtree
rmtree_processed_kept(st, path) ==
    st

\* lines 149-152: shutil.rmtree(processed_path) when it is a directory
rmtree_processed(st, path) ==
    IF st.processed[path].exists
    THEN Log([st EXCEPT !.processed[path] = NoProcessed(path)], <<"fs", "rmtree">>)
    ELSE st

\* The first raw sample of the data set that cannot be processed (the file is
\* missing or unreadable at line 72, or it has fewer labels than points at
\* lines 83-84); the number of raw samples when there is none.
FirstCorrupt(path) ==
    IF corrupt[path] = {} THEN NumRaw(path)
    ELSE CHOOSE i \in corrupt[path] : \A j \in corrupt[path] : i <= j

\* process that catches the failure of a sample and goes on with the next
process_skip_and_continue(st, path) ==
    LET done == RawIndices(path) \ corrupt[path]
        run == [path |-> path,
                before |-> st.processed[path].files,
                built |-> RawIndices(path),
                saved |-> done]
    IN  Return(Log([st EXCEPT !.processed[path] =
                        [exists |-> TRUE,
                         files |-> @.files \cup done,
                         written |-> @.written \cup done],
                    !.pass = run],
                   <<"fs", "process">>),
               NoValue)

\* process that leaves out the samples whose data_i.pt exists already
process_missing_only(st, path) ==
    LET stop == FirstCorrupt(path)
        done == (0..(stop - 1)) \ st.processed[path].files
        run == [path |-> path,
                before |-> st.processed[path].files,
                built |-> done \cup (IF stop < NumRaw(path) THEN {stop} ELSE {}),
                saved |-> done]
        st1 == Log([st EXCEPT !.processed[path] =
                        [exists |-> TRUE,
                         files |-> @.files \cup done,
                         written |-> @.written \cup done],
                    !.pass = run],
                   <<"fs", "process">>)
    IN  IF stop < NumRaw(path)
        THEN Raise(Log(st1, <<"raise", "SampleError">>), "SampleError")
        ELSE Return(st1, NoValue)

\* BasicShapeDataset.process, lines 64-97: the raw paths are processed in
\* order, each graph is built and data_i.pt written whether or not it exists
\* already; nothing is caught, so the first sample that fails ends the loop.
\* `pass` records the run: the files there when it began, the samples whose
\* graph construction was entered and those saved.
process(st, path) ==
    LET stop == FirstCorrupt(path)
        done == 0..(stop - 1)
        run == [path |-> path,
                before |-> st.processed[path].files,
                built |-> done \cup (IF stop < NumRaw(path) THEN {stop} ELSE {}),
                saved |-> done]
        st1 == Log([st EXCEPT !.processed[path] =
                        [exists |-> TRUE,
                         files |-> @.files \cup done,
                         written |-> @.written \cup done],
                    !.pass = run],
                   <<"fs", "process">>)
    IN  IF stop < NumRaw(path)
        THEN Raise(Log(st1, <<"raise", "SampleError">>), "SampleError")
        ELSE Return(st1, NoValue)

\* lines 155-159: constructing the dataset runs process() unless every
\* processed file is there already (torch_geometric's Dataset.__init__).
BasicShapeDataset(st, path) ==
    IF st.processed[path].exists
       /\ RawIndices(path) \subseteq st.processed[path].files
    THEN Return(st, NoValue)
    ELSE process(st, path)

(***************************************************************************)
(* The split of get_full_dataset, lines 160-178                            *)
(***************************************************************************)
\* line 161: tv_frac = 0.20, as hundredths
tv_frac_pct == 20

\* math.floor in the place of math.ceil
ceil_as_floor(a, b) == a \div b

\* math.ceil of a / b for a >= 0, b > 0
ceil(a, b) == (a + b - 1) \div b

\* line 162. The binary64 product fulllen*0.20 rounds to the exact fifth of
\* fulllen whenever that is an integer, for every length a data set can have,
\* so the ceiling is the ceiling of the exact product.
tv_num(fulllen) == ceil(fulllen * tv_frac_pct, 100)

\* np.cumsum of a three element list
cumsum(l) == <<l[1], l[1] + l[2], l[1] + l[2] + l[3]>>

\* lines 163-167 without the debug override of line 167
Splits_proportional(fulllen, dbg) ==
    cumsum(<<fulllen - tv_num(fulllen), 0, tv_num(fulllen)>>)

\* lines 163-167; splits[j] of the code is Splits(..)[j + 1]
Splits(fulllen, dbg) ==
    IF dbg THEN <<0, 7, 10>>
    ELSE cumsum(<<fulllen - tv_num(fulllen), 0, tv_num(fulllen)>>)

\* list(range(a, b))
range(a, b) == [i \in 1..(IF b > a THEN b - a ELSE 0) |-> a + i - 1]

\* lines 170-177: the index lists of the two Subsets
train_indices(fulllen, dbg) == range(0, Splits(fulllen, dbg)[2])
valid_indices(fulllen, dbg) ==
    range(Splits(fulllen, dbg)[2], Splits(fulllen, dbg)[3])

(***************************************************************************)
(* LindseysTrainingScript, lines 100-276                                   *)
(***************************************************************************)
\* lines 112, 118, 119, 124, 132
cats == 4
hidden_dim == 64
n_iters == 6
n_epochs_debug == 3
n_epochs_full == 30

\* __init__, lines 123-136: the dataset path follows the debug flag
InitialPath(dbg) == IF dbg THEN TestPath ELSE FullPath

\* line 148
forced_reprocessing(self) ==
    debug[self] /\ (Contains(dataset_path[self], "testsample")
                    \/ Contains(dataset_path[self], "testset"))

\* get_full_dataset without the decorator, lines 144-178
get_full_dataset_func(st, self) ==
    LET path == dataset_path[self] IN
    IF ~isdir(path)
    THEN Raise(Log(st, <<"raise", "OSError">>), "OSError")
    ELSE LET st1 == IF forced_reprocessing(self)
                    THEN rmtree_processed(st, path) ELSE st
             full_dataset == BasicShapeDataset(st1, path)
             fulllen == NumRaw(path)
         IN  IF full_dataset.exc # "none" THEN full_dataset
             ELSE Return(full_dataset.st,
                         [kind |-> "dataset",
                          path |-> path,
                          fulllen |-> fulllen,
                          train |-> train_indices(fulllen, debug[self]),
                          valid |-> valid_indices(fulllen, debug[self])])

\* lines 143-144: @cache_return_value def get_full_dataset
get_full_dataset(st, self) ==
    IF wrapper_miss(st, "get_full_dataset")
    THEN wrapper_store(
             get_full_dataset_func(wrapper_enter(st, "get_full_dataset"), self),
             "get_full_dataset")
    ELSE wrapper_hit(st, "get_full_dataset")

\* lines 187-196, with categorized and forcecats both True (lines 110-111)
get_num_classes(self, full_dataset) == cats

\* _get_trainer with the checkpoint read before the model exists
_get_trainer_load_before_build(st, self, dataset) ==
    LET trainer == [kind |-> "trainer",
                    dataset |-> dataset.path,
                    output_dim |-> cats,
                    hidden_dim |-> hidden_dim,
                    n_iters |-> n_iters,
                    restored |-> load_checkpoint[self]]
    IN  IF load_checkpoint[self] = None
        THEN Return(Log(st, <<"trainer", "build_model">>), trainer)
        ELSE IF load_checkpoint[self] = BadCheckpoint
        THEN Raise(Log(st, <<"raise", "CheckpointError">>), "CheckpointError")
        ELSE Return(Log(Log(st, <<"trainer", "load_state_dict">>),
                        <<"trainer", "build_model">>), trainer)

\* _get_trainer without lines 253-255: no checkpoint is ever loaded
_get_trainer_no_load(st, self, dataset) ==
    Return(Log(st, <<"trainer", "build_model">>),
           [kind |-> "trainer",
            dataset |-> dataset.path,
            output_dim |-> cats,
            hidden_dim |-> hidden_dim,
            n_iters |-> n_iters,
            restored |-> None])

\* _get_trainer, lines 206-257: the model is built, then the checkpoint is
\* loaded into it when one is configured.
_get_trainer(st, self, dataset) ==
    LET built == Log(st, <<"trainer", "build_model">>)
        trainer == [kind |-> "trainer",
                    dataset |-> dataset.path,
                    output_dim |-> get_num_classes(self, dataset),
                    hidden_dim |-> hidden_dim,
                    n_iters |-> n_iters,
                    restored |-> load_checkpoint[self]]
    IN  IF load_checkpoint[self] = None
        THEN Return(built, trainer)
        ELSE IF load_checkpoint[self] = BadCheckpoint
        THEN Raise(Log(built, <<"raise", "CheckpointError">>), "CheckpointError")
        ELSE Return(Log(built, <<"trainer", "load_state_dict">>), trainer)

\* get_trainer without the decorator, lines 199-204
get_trainer_func(st, self) ==
    LET d == get_full_dataset(st, self) IN
    IF d.exc # "none" THEN d
    ELSE _get_trainer(d.st, self, d.val)

\* lines 198-199: @cache_return_value def get_trainer
get_trainer(st, self) ==
    IF wrapper_miss(st, "get_trainer")
    THEN wrapper_store(get_trainer_func(wrapper_enter(st, "get_trainer"), self),
                       "get_trainer")
    ELSE wrapper_hit(st, "get_trainer")

\* train, lines 260-266
train(st, self) ==
    LET d == get_full_dataset(st, self) IN
    IF d.exc # "none" THEN d
    ELSE LET t == get_trainer(d.st, self) IN
         IF t.exc # "none" THEN t
         ELSE Return(Log(t.st, <<"trainer", "train">>),
                     [kind |-> "summary",
                      n_epochs |-> IF debug[self] THEN n_epochs_debug
                                   ELSE n_epochs_full,
                      trainer |-> t.val,
                      samples |-> d.val.train])

\* test, lines 269-276: the validation subset is cut to positions 0..9
\* (`handed`, line 271); the DataLoader resolves each position through the
\* subset's index list when the evaluation pass iterates, and a position past
\* its end raises IndexError.
test(st, self) ==
    LET d == get_full_dataset(st, self) IN
    IF d.exc # "none" THEN d
    ELSE LET t == get_trainer(d.st, self) IN
         IF t.exc # "none" THEN t
         ELSE LET started == Log([t.st EXCEPT !.handed = range(0, 10)],
                                 <<"trainer", "evaluate">>) IN
              IF \E pos \in 0..9 : pos >= Len(d.val.valid)
              THEN Raise(Log(started, <<"raise", "IndexError">>), "IndexError")
              ELSE Return(started,
                          [kind |-> "summary",
                           n_epochs |-> 0,
                           trainer |-> t.val,
                           samples |-> [i \in 1..10 |-> d.val.valid[i]]])

(***************************************************************************)
(* Spec: the sessions and the memoization layer                            *)
(***************************************************************************)
\* The store a call starts from.
Store ==
    [is_called |-> is_called,
     cached |-> cached_return_value,
     reg |-> CACHED_FUNCTIONS,
     processed |-> Age(processed),
     hist |-> hist,
     pass |-> NoValue,
     handed |-> NoValue,
     events |-> <<>>]

Idle ==
    [op |-> "none", self |-> "-", exc |-> "none", ret |-> NoValue,
     pass |-> NoValue, handed |-> NoValue, events |-> <<>>]

SplitIdle == split_in = [total |-> 0, debug |-> FALSE] /\ split_out = NoValue
GraphIdle == sample = NoValue /\ graph = NoValue
CommandsIdle == cmd_in = NoValue /\ cmd_out = NoValue
SessionIdle ==
    /\ is_called = [w \in Wrappers |-> FALSE]
    /\ cached_return_value = [w \in Wrappers |-> NoValue]
    /\ CACHED_FUNCTIONS = <<>>
    /\ debug = [s \in Sessions |-> s = "A"]
    /\ dataset_path = [s \in Sessions |-> InitialPath(debug[s])]
    /\ load_checkpoint = [s \in Sessions |-> None]
    /\ processed = [p \in Dirs |-> NoProcessed(p)]
    /\ corrupt = [p \in Dirs |-> {}]
    /\ hist = [w \in Wrappers |-> "cleared"]
    /\ last = Idle

\* The module is imported (lines 27, 143, 198: nothing memoized yet) and the two
\* sessions are constructed: A with debug on (the default of line 102), B with
\* debug off (main, line 280). Each data set has no processed/ directory yet or
\* a complete one left by an earlier process.
Init ==
    /\ is_called = [w \in Wrappers |-> FALSE]
    /\ cached_return_value = [w \in Wrappers |-> NoValue]
    /\ CACHED_FUNCTIONS = <<>>
    /\ debug = [s \in Sessions |-> s = "A"]
    /\ dataset_path = [s \in Sessions |-> InitialPath(debug[s])]
    /\ load_checkpoint = [s \in Sessions |-> None]
    /\ processed \in [Dirs -> {NoProcessed(TestPath), OldProcessed(TestPath),
                               NoProcessed(FullPath), OldProcessed(FullPath)}]
    /\ \A p \in Dirs : processed[p] \in {NoProcessed(p), OldProcessed(p)}
    /\ corrupt = [p \in Dirs |-> {}]
    /\ hist = [w \in Wrappers |-> "cleared"]
    /\ last = Idle
    /\ SplitIdle
    /\ GraphIdle
    /\ CommandsIdle

\* The step of a call: the store it leaves and its record.
Commit(op, self, r) ==
    /\ is_called' = r.st.is_called
    /\ cached_return_value' = r.st.cached
    /\ CACHED_FUNCTIONS' = r.st.reg
    /\ processed' = r.st.processed
    /\ hist' = r.st.hist
    /\ last' = [op |-> op, self |-> self, exc |-> r.exc, ret |-> r.val,
                pass |-> r.st.pass, handed |-> r.st.handed,
                events |-> r.st.events]
    /\ UNCHANGED <<debug, dataset_path, load_checkpoint, corrupt, splitVars,
                   graphVars, cmdVars>>

CallGetFullDataset(self) ==
    Commit("get_full_dataset", self, get_full_dataset(Store, self))

CallGetTrainer(self) ==
    Commit("get_trainer", self, get_trainer(Store, self))

CallTrain(self) ==
    Commit("train", self, train(Store, self))

CallTest(self) ==
    Commit("test", self, test(Store, self))

CallClearCache ==
    Commit("clear_cache", "-", Return(clear_cache(Store), NoValue))

\* script.dataset_path = path
SetDatasetPath(self, path) ==
    /\ dataset_path[self] # path
    /\ dataset_path' = [dataset_path EXCEPT ![self] = path]
    /\ processed' = Age(processed)
    /\ last' = Idle
    /\ UNCHANGED <<is_called, cached_return_value, CACHED_FUNCTIONS, debug,
                   load_checkpoint, corrupt, hist, splitVars,
                   graphVars, cmdVars>>

\* script.load_checkpoint = checkpoint (main, line 283)
SetLoadCheckpoint(self, checkpoint) ==
    /\ load_checkpoint[self] # checkpoint
    /\ load_checkpoint' = [load_checkpoint EXCEPT ![self] = checkpoint]
    /\ processed' = Age(processed)
    /\ last' = Idle
    /\ UNCHANGED <<is_called, cached_return_value, CACHED_FUNCTIONS, debug,
                   dataset_path, corrupt, hist, splitVars,
                   graphVars, cmdVars>>

Next ==
    \/ \E self \in Sessions : CallGetFullDataset(self)
    \/ \E self \in Sessions : CallGetTrainer(self)
    \/ \E self \in Sessions : CallTrain(self)
    \/ \E self \in Sessions : CallTest(self)
    \/ CallClearCache
    \/ \E self \in Sessions, path \in Paths : SetDatasetPath(self, path)
    \/ \E self \in Sessions, checkpoint \in Checkpoints :
           SetLoadCheckpoint(self, checkpoint)

Spec == Init /\ [][Next]_vars

\* The program without clear_cache: what a process does that never clears.
NextNoClear ==
    \/ \E self \in Sessions : CallGetFullDataset(self)
    \/ \E self \in Sessions : CallGetTrainer(self)
    \/ \E self \in Sessions : CallTrain(self)
    \/ \E self \in Sessions : CallTest(self)
    \/ \E self \in Sessions, path \in Paths : SetDatasetPath(self, path)
    \/ \E self \in Sessions, checkpoint \in Checkpoints :
           SetLoadCheckpoint(self, checkpoint)

SpecNoClear == Init /\ [][NextNoClear]_vars

(***************************************************************************)
(* SpecCache: the caching pass over raw samples that may fail.  The raw    *)
(* files of a data set are damaged and repaired between the calls of       *)
(* get_full_dataset and clear_cache.                                       *)
(***************************************************************************)
\* The raw samples that get damaged: the first, one in the middle and the last
\* of the test set; at most MaxDamaged of a data set at a time.
Damageable == {0, 3, 9}
MaxDamaged == 1

\* raw file i of the data set is removed, truncated, or replaced by one with
\* fewer labels than points
Damage(path, i) ==
    /\ i \in RawIndices(path) \ corrupt[path]
    /\ Cardinality(corrupt[path]) < MaxDamaged
    /\ corrupt' = [corrupt EXCEPT ![path] = @ \cup {i}]
    /\ processed' = Age(processed)
    /\ last' = Idle
    /\ UNCHANGED <<is_called, cached_return_value, CACHED_FUNCTIONS, debug,
                   dataset_path, load_checkpoint, hist, splitVars,
                   graphVars, cmdVars>>

\* raw file i is put back
Repair(path, i) ==
    /\ i \in corrupt[path]
    /\ corrupt' = [corrupt EXCEPT ![path] = @ \ {i}]
    /\ processed' = Age(processed)
    /\ last' = Idle
    /\ UNCHANGED <<is_called, cached_return_value, CACHED_FUNCTIONS, debug,
                   dataset_path, load_checkpoint, hist, splitVars,
                   graphVars, cmdVars>>

NextCache ==
    \/ \E self \in Sessions : CallGetFullDataset(self)
    \/ CallClearCache
    \/ \E path \in Dirs, i \in Damageable : Damage(path, i)
    \/ \E path \in Dirs, i \in Damageable : Repair(path, i)

SpecCache == Init /\ [][NextCache]_vars

(***************************************************************************)
(* Reading the record of a call                                            *)
(***************************************************************************)
Has(events, e) == \E i \in DOMAIN events : events[i] = e

\* The wrapper w was invoked in the call, and its body was executed in it.
Invoked(rec, w) == Has(rec.events, <<"exec", w>>) \/ Has(rec.events, <<"hit", w>>)
Executed(rec, w) == Has(rec.events, <<"exec", w>>)

\* How the first invocation of w in the call went: "exec", "hit" or "none".
FirstInvocation(rec, w) ==
    LET at == {i \in DOMAIN rec.events :
                   rec.events[i] \in {<<"exec", w>>, <<"hit", w>>}}
    IN  IF at = {} THEN "none"
        ELSE rec.events[CHOOSE i \in at : \A j \in at : i <= j][1]

\* Event a comes before event b in the call.
Before(rec, a, b) ==
    \E i, j \in DOMAIN rec.events :
        i < j /\ rec.events[i] = a /\ rec.events[j] = b

TrainerStarted(rec) ==
    Has(rec.events, <<"trainer", "train">>) \/ Has(rec.events, <<"trainer", "evaluate">>)

(***************************************************************************)
(* C1..C2: the memoization layer                                           *)
(***************************************************************************)
\* C1: once a wrapper's body has returned and clear_cache has not been called
\* since, every invocation of the wrapper, on either session, returns the value
\* that execution stored and executes no body: the stored value stays, a direct
\* call returns it, and train() trains on the stored split.
C1_StoredValueReturned ==
    [][\A w \in Wrappers :
          (hist[w] = "stored" /\ Invoked(last', w))
          => /\ ~Executed(last', w)
             /\ cached_return_value'[w] = cached_return_value[w]
             /\ last'.op = w =>
                    last'.exc = "none" /\ last'.ret = cached_return_value[w]
             /\ (w = "get_full_dataset" /\ last'.op = "train"
                    /\ last'.exc = "none") =>
                    last'.ret.samples = cached_return_value[w].train]_vars

\* C1 witness: session B is handed, without executing anything, the dataset
\* that session A's call built from A's path.
C1_Witness ==
    /\ last.op = "get_full_dataset" /\ last.self = "B" /\ last.exc = "none"
    /\ last.events = << <<"hit", "get_full_dataset">> >>
    /\ last.ret.path = TestPath
    /\ dataset_path["B"] = FullPath

\* C2 (as claimed): the first invocation of any wrapper after a clear_cache
\* executes the wrapped function.
C2_ClearResetsEveryWrapper ==
    [][\A w \in Wrappers :
          (hist[w] = "cleared" /\ Invoked(last', w))
          => FirstInvocation(last', w) = "exec"]_vars

(***************************************************************************)
(* SpecSplit: the split of get_full_dataset over a dataset of any length   *)
(***************************************************************************)
\* The longest dataset split.
MaxTotal == 30

\* What get_full_dataset returns (lines 160-178) for a dataset of `total`
\* samples.
get_full_dataset_split(total, dbg) ==
    [kind |-> "split",
     train |-> train_indices(total, dbg),
     valid |-> valid_indices(total, dbg)]

InitSplit ==
    /\ split_in \in [total : 0..MaxTotal, debug : BOOLEAN]
    /\ split_out = NoValue
    /\ SessionIdle
    /\ GraphIdle
    /\ CommandsIdle

SplitDefault ==
    /\ split_out = NoValue
    /\ ~split_in.debug
    /\ split_out' = get_full_dataset_split(split_in.total, FALSE)
    /\ UNCHANGED <<split_in, sessionVars, graphVars, cmdVars>>

SplitDebug ==
    /\ split_out = NoValue
    /\ split_in.debug
    /\ split_out' = get_full_dataset_split(split_in.total, TRUE)
    /\ UNCHANGED <<split_in, sessionVars, graphVars, cmdVars>>

NextSplit == SplitDefault \/ SplitDebug

SpecSplit == InitSplit /\ [][NextSplit]_vars

\* The elements of a list
Elems(l) == {l[i] : i \in DOMAIN l}

\* The list l is the ascending run a, a+1, .., b-1
IsRun(l, a, b) ==
    /\ Len(l) = (IF b > a THEN b - a ELSE 0)
    /\ \A i \in DOMAIN l : l[i] = a + i - 1

(***************************************************************************)
(* C3..C5: the split                                                       *)
(***************************************************************************)
\* C3 (as claimed): for every dataset length and both policies, the train and
\* validation lists are disjoint and every index lies in [0, total).
C3_SplitWithinDataset ==
    split_out # NoValue =>
        /\ Elems(split_out.train) \cap Elems(split_out.valid) = {}
        /\ \A i \in Elems(split_out.train) \cup Elems(split_out.valid) :
               0 <= i /\ i < split_in.total

\* C4: under the default policy the validation list has v indices, v the least
\* integer with v >= total/5, and is the run [total - v, total); the train list
\* is the run [0, total - v).
C4_DefaultSplit ==
    (split_out # NoValue /\ ~split_in.debug) =>
        \E v \in 0..split_in.total :
            /\ 5 * v >= split_in.total
            /\ 5 * (v - 1) < split_in.total
            /\ Len(split_out.valid) = v
            /\ IsRun(split_out.valid, split_in.total - v, split_in.total)
            /\ IsRun(split_out.train, 0, split_in.total - v)

\* C4 witness: a length that is no multiple of five, where the ceiling rounds up.
C4_Witness ==
    /\ split_out # NoValue /\ ~split_in.debug
    /\ split_in.total = 11
    /\ Len(split_out.valid) = 3 /\ Len(split_out.train) = 8

\* C5: with debug on and at least 10 samples, train is 0..6 and validation is
\* 7..9, whatever the proportional rule gives.
C5_DebugSplit ==
    (split_out # NoValue /\ split_in.debug /\ split_in.total >= 10) =>
        /\ split_out.train = <<0, 1, 2, 3, 4, 5, 6>>
        /\ split_out.valid = <<7, 8, 9>>

\* C5 witness: a length whose proportional split would be 20 / 5.
C5_Witness ==
    /\ split_out # NoValue /\ split_in.debug
    /\ split_in.total = 25
    /\ tv_num(split_in.total) = 5
    /\ Len(split_out.train) = 7 /\ Len(split_out.valid) = 3

(***************************************************************************)
(* SpecGraph: BasicShapeDataset.process on one raw sample, lines 72-93.    *)
(* A sample is N points, here on a line: x[i] is the coordinate and y[i]   *)
(* the integer label of point i, for i in 0..N-1.                          *)
(***************************************************************************)
\* line 62
k == 4

\* The most points in a sample.
MaxPoints == 5

\* The coordinates and the labels the points of a sample take: coincident
\* points, neighbours at equal and at different distances; label 0 and another.
Coords == {0, 1}
Labels == {0, 1}

Samples ==
    UNION {[x : [0..(n - 1) -> Coords], y : [0..(n - 1) -> Labels]] :
               n \in 0..MaxPoints}

NumPoints(s) == Cardinality(DOMAIN s.x)

distance(a, b) == IF a >= b THEN a - b ELSE b - a

\* The answers a k-nearest-neighbour query at coordinate q may give: k distinct
\* points, none farther from q than a point left out. Points at equal distance
\* are taken in whatever order the tree visits them.
KNearest(x, q) ==
    {S \in SUBSET DOMAIN x :
        /\ Cardinality(S) = k
        /\ \A j \in S, m \in (DOMAIN x) \ S :
               distance(q, x[j]) <= distance(q, x[m])}

\* A fitted tree answers equal queries equally: what kneighbors can return is
\* one answer per query coordinate in Q.
RECURSIVE Queries(_, _)
Queries(x, Q) ==
    IF Q = {} THEN {<<>>}
    ELSE LET q == CHOOSE c \in Q : TRUE IN
         {f @@ (q :> S) : f \in Queries(x, Q \ {q}), S \in KNearest(x, q)}

\* The neighbours S of a query at q as kneighbors lists them, nearest first
\* (equidistant ones by index; the order of edges plays no role below).
RECURSIVE NearestFirst(_, _, _)
NearestFirst(x, q, S) ==
    IF S = {} THEN <<>>
    ELSE LET j == CHOOSE c \in S : \A m \in S :
                      \/ distance(q, x[c]) < distance(q, x[m])
                      \/ distance(q, x[c]) = distance(q, x[m]) /\ c <= m
         IN  <<j>> \o NearestFirst(x, q, S \ {j})

\* A numpy array or a CSR row as stored: the list with every element computed.
array(l) == SubSeq(l, 1, Len(l))

\* lines 76-77: the connectivity matrix in CSR form. Row i of the matrix, the
\* row of point i, is element i + 1 of the list of rows; a row is the list of
\* its stored entries [col, data]: the k neighbours of the point, each with
\* data 1.
kneighbors_graph(x, nb) ==
    array([r \in 1..Cardinality(DOMAIN x) |->
              LET cols == NearestFirst(x, x[r - 1], nb[x[r - 1]]) IN
              array([n \in DOMAIN cols |-> [col |-> cols[n], data |-> 1]])])

\* line 78 for one row: a stored diagonal entry gets the value v, a missing
\* one is inserted with it.
setdiag_row(row, i, v) ==
    IF \E n \in DOMAIN row : row[n].col = i
    THEN array([n \in DOMAIN row |->
                   IF row[n].col = i THEN [col |-> i, data |-> v] ELSE row[n]])
    ELSE Append(row, [col |-> i, data |-> v])

\* line 78 left out
setdiag_skipped(A, v) ==
    A

\* line 78
setdiag(A, v) ==
    array([r \in DOMAIN A |-> setdiag_row(A[r], r - 1, v)])

StoredNonzero(e) == e.data # 0

\* line 79: stored zeros are dropped
eliminate_zeros(A) ==
    array([r \in DOMAIN A |-> SelectSeq(A[r], StoredNonzero)])

\* line 80, nonzero(): the (row, col) of the entries that are not zero, row by
\* row, from row r on
RECURSIVE nonzero(_, _)
nonzero(A, r) ==
    IF r > Len(A) THEN <<>>
    ELSE LET row == SelectSeq(A[r], StoredNonzero) IN
         array([e \in DOMAIN row |-> <<r - 1, row[e].col>>]) \o nonzero(A, r + 1)

\* line 80, np.stack: edge_index[1] the sources, edge_index[2] the targets
stack(pairs) ==
    <<array([e \in DOMAIN pairs |-> pairs[e][1]]),
      array([e \in DOMAIN pairs |-> pairs[e][2]])>>

\* lines 82-86 without the mask of matched pairs: every edge gets the label of
\* its source
edge_labels_unmasked(y, edge_index) ==
    array([e \in DOMAIN edge_index[1] |-> y[edge_index[1][e]]])

\* lines 82-86 and 91: zeros, overwritten by the source label where source and
\* target labels match; the labels here are small integers, which the float64
\* array and the cast to int64 keep as they are.
edge_labels(y, edge_index) ==
    array([e \in DOMAIN edge_index[1] |->
              LET labels_in == y[edge_index[1][e]]
                  labels_out == y[edge_index[2][e]]
              IN  IF labels_in = labels_out THEN labels_in ELSE 0])

\* lines 76-93 for the sample s, nb being the answers of the tree
process_sample(s, nb) ==
    LET nbrs_sm == eliminate_zeros(setdiag(kneighbors_graph(s.x, nb), 0))
        edge_index == stack(nonzero(nbrs_sm, 1))
    IN  [kind |-> "data",
         x |-> s.x,
         edge_index |-> edge_index,
         y |-> edge_labels(s.y, edge_index),
         y_nodes |-> s.y]

InitGraph ==
    /\ sample \in Samples
    /\ graph = NoValue
    /\ SessionIdle
    /\ SplitIdle
    /\ CommandsIdle

\* One pass of the loop of process over the raw sample: the record saved.
Process ==
    /\ graph = NoValue
    /\ NumPoints(sample) >= k
    /\ \E nb \in Queries(sample.x, {sample.x[i] : i \in DOMAIN sample.x}) :
           graph' = process_sample(sample, nb)
    /\ UNCHANGED <<sample, sessionVars, splitVars, cmdVars>>

\* With fewer than k points kneighbors_graph raises ValueError (line 77; with
\* no point at all fit does, line 76) and nothing is saved.
ProcessRaises ==
    /\ graph = NoValue
    /\ NumPoints(sample) < k
    /\ graph' = [kind |-> "error", exc |-> "ValueError"]
    /\ UNCHANGED <<sample, sessionVars, splitVars, cmdVars>>

NextGraph == Process \/ ProcessRaises

SpecGraph == InitGraph /\ [][NextGraph]_vars

\* The edges of a saved record
Edges(g) == DOMAIN g.edge_index[1]
Source(g, e) == g.edge_index[1][e]
Target(g, e) == g.edge_index[2][e]

(***************************************************************************)
(* C6..C7: the graph record                                                *)
(***************************************************************************)
\* C6 (as claimed): a nonzero edge label is the label of both end points, and
\* an edge labelled 0 joins points of different labels.
C6_EdgeLabelsAsClaimed ==
    graph.kind = "data" =>
        \A e \in Edges(graph) :
            /\ graph.y[e] # 0 =>
                   /\ graph.y_nodes[Source(graph, e)] = graph.y[e]
                   /\ graph.y_nodes[Target(graph, e)] = graph.y[e]
            /\ graph.y[e] = 0 =>
                   graph.y_nodes[Source(graph, e)] # graph.y_nodes[Target(graph, e)]

\* C6 (amended): a nonzero edge label is the label of both end points, and an
\* edge labelled 0 joins points of different labels or two points labelled 0.
C6_EdgeLabels ==
    graph.kind = "data" =>
        \A e \in Edges(graph) :
            /\ graph.y[e] # 0 =>
                   /\ graph.y_nodes[Source(graph, e)] = graph.y[e]
                   /\ graph.y_nodes[Target(graph, e)] = graph.y[e]
            /\ graph.y[e] = 0 =>
                   \/ graph.y_nodes[Source(graph, e)]
                          # graph.y_nodes[Target(graph, e)]
                   \/ /\ graph.y_nodes[Source(graph, e)] = 0
                      /\ graph.y_nodes[Target(graph, e)] = 0

\* C6 witness: a record with an edge between two points labelled 0, an edge
\* between two points of one nonzero label, and an edge between labels that
\* differ.
C6_Witness ==
    /\ graph.kind = "data"
    /\ \E e \in Edges(graph) :
           /\ graph.y[e] = 0
           /\ graph.y_nodes[Source(graph, e)] = 0
           /\ graph.y_nodes[Target(graph, e)] = 0
    /\ \E e \in Edges(graph) : graph.y[e] # 0
    /\ \E e \in Edges(graph) :
           graph.y_nodes[Source(graph, e)] # graph.y_nodes[Target(graph, e)]

\* C7: the edge list of a saved record has no edge from a point to itself and
\* no (source, target) pair twice.
C7_NoSelfLoopNoDuplicate ==
    graph.kind = "data" =>
        /\ \A e \in Edges(graph) : Source(graph, e) # Target(graph, e)
        /\ \A e, f \in Edges(graph) :
               (Source(graph, e) = Source(graph, f)
                   /\ Target(graph, e) = Target(graph, f)) => e = f

\* C7 witness: more than k coincident points, so that one point is not among
\* its own k neighbours (its diagonal entry is inserted as a zero and dropped:
\* k edges leave it) while another is (its self-loop is dropped: k - 1 edges).
C7_Witness ==
    /\ graph.kind = "data"
    /\ \A i, j \in DOMAIN sample.x : sample.x[i] = sample.x[j]
    /\ \E i \in DOMAIN sample.x :
           Cardinality({e \in Edges(graph) : Source(graph, e) = i}) = k
    /\ \E i \in DOMAIN sample.x :
           Cardinality({e \in Edges(graph) : Source(graph, e) = i}) = k - 1

(***************************************************************************)
(* C8..C10: the sessions                                                   *)
(***************************************************************************)
\* The split and the trainer a session's own attributes call for.
OwnDataset(rec) ==
    /\ rec.ret.path = dataset_path[rec.self]
    /\ rec.ret.train = train_indices(NumRaw(dataset_path[rec.self]), debug[rec.self])
    /\ rec.ret.valid = valid_indices(NumRaw(dataset_path[rec.self]), debug[rec.self])

OwnTrainer(rec) ==
    /\ rec.ret.restored = load_checkpoint[rec.self]
    /\ rec.ret.dataset = dataset_path[rec.self]

\* C8 (as claimed): with no clear_cache, get_full_dataset and get_trainer
\* return to a session a split and a trainer built from that session's own
\* debug flag, dataset path and checkpoint path.
C8_PerSessionAsClaimed ==
    /\ (last.op = "get_full_dataset" /\ last.exc = "none") => OwnDataset(last)
    /\ (last.op = "get_trainer" /\ last.exc = "none") => OwnTrainer(last)

\* C8 (amended): with no clear_cache, the memoization is per method and shared
\* by the sessions. A call that finds no stored value executes the method and
\* returns what the calling session's attributes call for (the trainer on the
\* dataset get_full_dataset hands it); any other call, on either session,
\* executes nothing and returns the stored value.
C8_PerMethod ==
    [][(last'.op \in Wrappers /\ last'.exc = "none")
       => IF cached_return_value[last'.op] = NoValue
          THEN /\ Executed(last', last'.op)
               /\ last'.op = "get_full_dataset" => OwnDataset(last')
               /\ last'.op = "get_trainer" =>
                      /\ last'.ret.restored = load_checkpoint[last'.self]
                      /\ last'.ret.dataset
                             = cached_return_value'["get_full_dataset"].path
          ELSE /\ last'.events = << <<"hit", last'.op>> >>
               /\ last'.ret = cached_return_value[last'.op]]_vars

\* C8 witness: session B, whose checkpoint is configured, is returned the
\* trainer built for session A, without a checkpoint and on A's dataset.
C8_Witness ==
    /\ last.op = "get_trainer" /\ last.self = "B" /\ last.exc = "none"
    /\ last.events = << <<"hit", "get_trainer">> >>
    /\ load_checkpoint["B"] = GoodCheckpoint /\ last.ret.restored = None
    /\ dataset_path["B"] = FullPath /\ last.ret.dataset = TestPath

\* C9 (as claimed): a run of train() or test() on a session whose dataset path
\* is no directory, or whose checkpoint does not load, raises the error and
\* never starts the training loop or the evaluation pass.
C9_FailureAbortsAsClaimed ==
    (/\ last.op \in {"train", "test"}
     /\ \/ ~isdir(dataset_path[last.self])
        \/ load_checkpoint[last.self] = BadCheckpoint)
    => /\ last.exc \in {"OSError", "CheckpointError"}
       /\ ~TrainerStarted(last)

\* C9 (amended): in a run of train() or test(), the path is checked when the
\* body of get_full_dataset executes and the checkpoint is loaded when the
\* trainer is built; if then the path is no directory or the checkpoint does
\* not load, the error reaches the caller, and after either error the training
\* loop and the evaluation pass are not started in that run.
C9_FailureAborts ==
    last.op \in {"train", "test"}
    => /\ (Executed(last, "get_full_dataset") /\ ~isdir(dataset_path[last.self]))
              => last.exc = "OSError"
       /\ (Has(last.events, <<"trainer", "build_model">>)
              /\ load_checkpoint[last.self] = BadCheckpoint)
              => last.exc = "CheckpointError"
       /\ last.exc \in {"OSError", "CheckpointError"}
              => ~TrainerStarted(last) /\ last.ret = NoValue

\* C9 witness: train() builds the model, fails to load the checkpoint and ends
\* with the error, the training loop not started.
C9_Witness ==
    /\ last.op = "train" /\ last.exc = "CheckpointError"
    /\ Has(last.events, <<"trainer", "build_model">>)
    /\ ~TrainerStarted(last)

\* The body of get_full_dataset was executed in the call and passed its path
\* check.
DatasetBuilt(rec) ==
    Executed(rec, "get_full_dataset") /\ ~Has(rec.events, <<"raise", "OSError">>)

NamesTestDataset(path) == Contains(path, "testset") \/ Contains(path, "testsample")

\* Every record of the dataset at `path` was written by the latest step.
AllNew(pr, path) ==
    /\ pr[path].exists
    /\ pr[path].files = RawIndices(path)
    /\ pr[path].files \subseteq pr[path].written

\* C10 (as claimed): when the body of get_full_dataset runs on a path that
\* names a test dataset, an existing processed directory is removed before the
\* dataset is constructed and every record is produced during the call.
C10_ForcedReprocessingAsClaimed ==
    [][(DatasetBuilt(last') /\ NamesTestDataset(dataset_path[last'.self]))
       => /\ AllNew(processed', dataset_path[last'.self])
          /\ processed[dataset_path[last'.self]].exists
                 => Before(last', <<"fs", "rmtree">>, <<"fs", "process">>)]_vars

\* C10 (amended): the same, for a session whose debug flag is on.
C10_ForcedReprocessing ==
    [][(/\ DatasetBuilt(last')
        /\ debug[last'.self]
        /\ NamesTestDataset(dataset_path[last'.self]))
       => /\ AllNew(processed', dataset_path[last'.self])
          /\ processed[dataset_path[last'.self]].exists
                 => Before(last', <<"fs", "rmtree">>, <<"fs", "process">>)]_vars

\* C10 witness: a debug session's call removed the processed directory it
\* found and rebuilt every record.
C10_Witness ==
    /\ DatasetBuilt(last) /\ debug[last.self]
    /\ NamesTestDataset(dataset_path[last.self])
    /\ Before(last, <<"fs", "rmtree">>, <<"fs", "process">>)
    /\ AllNew(processed, dataset_path[last.self])

(***************************************************************************)
(* C11, C15: the caching pass                                              *)
(***************************************************************************)
\* The caching pass of the call, if it ran one.
PassRan(rec) == rec.pass # NoValue

\* C11 (as claimed): a caching pass enters graph construction only for raw
\* samples that had no persisted record when it began, so no persisted record
\* is recomputed or overwritten, and after a successful pass over N raw samples
\* there is one record for each index 0..N-1.
C11_MissingOnlyAsClaimed ==
    PassRan(last) =>
        /\ last.pass.built \cap last.pass.before = {}
        /\ last.pass.saved \cap last.pass.before = {}
        /\ last.exc = "none" =>
               processed[last.pass.path].files = RawIndices(last.pass.path)

\* C11 (amended): a caching pass runs only when the record of some raw sample
\* is missing, and then it builds and writes the record of every raw sample,
\* persisted before or not; after a successful pass over N raw samples there is
\* one record for each index 0..N-1, every one written by that pass.  A dataset
\* constructed without a pass finds every record and writes none.
C11_WholePass ==
    /\ PassRan(last) =>
           /\ ~(RawIndices(last.pass.path) \subseteq last.pass.before)
           /\ last.exc = "none" =>
                  /\ last.pass.built = RawIndices(last.pass.path)
                  /\ last.pass.saved = RawIndices(last.pass.path)
                  /\ processed[last.pass.path].files = RawIndices(last.pass.path)
                  /\ RawIndices(last.pass.path)
                         \subseteq processed[last.pass.path].written
    /\ (Executed(last, "get_full_dataset") /\ last.exc = "none" /\ ~PassRan(last)) =>
           /\ processed[last.ret.path].files = RawIndices(last.ret.path)
           /\ processed[last.ret.path].written = {}

\* A pass over a partly persisted data set has succeeded and rewritten the
\* records that were there.
C11_Witness ==
    /\ PassRan(last) /\ last.exc = "none"
    /\ last.pass.before # {}
    /\ last.pass.before \subseteq processed[last.pass.path].written

(***************************************************************************)
(* C12..C14: the order of a session's steps                                *)
(***************************************************************************)
\* Nothing has been called since the module was imported or since the latest
\* clear_cache: the sessions are Unconfigured.
Unconfigured == \A w \in Wrappers : hist[w] = "cleared"

\* The dataset was obtained, then the trainer built, then the trainer started.
LoadedBuiltStarted(rec) ==
    /\ \/ Before(rec, <<"exec", "get_full_dataset">>, <<"trainer", "build_model">>)
       \/ Before(rec, <<"hit", "get_full_dataset">>, <<"trainer", "build_model">>)
    /\ TrainerStarted(rec) =>
           \/ Before(rec, <<"trainer", "build_model">>, <<"trainer", "train">>)
           \/ Before(rec, <<"trainer", "build_model">>, <<"trainer", "evaluate">>)

\* C12: the training loop or evaluation pass of a call starts only after the
\* dataset was obtained and the trainer obtained after it; a trainer is built
\* only after the dataset was obtained; a call that loads the dataset uses a
\* trainer built after that load; and train(), test() and get_trainer() called
\* when Unconfigured load the dataset, then build the trainer, and only then
\* start the trainer.
C12_LoadBuildStart ==
    [][/\ TrainerStarted(last') =>
              /\ Invoked(last', "get_full_dataset") /\ Invoked(last', "get_trainer")
              /\ FirstInvocation(last', "get_full_dataset") # "none"
              /\ \/ Before(last', <<"exec", "get_trainer">>, <<"trainer", "train">>)
                 \/ Before(last', <<"hit", "get_trainer">>, <<"trainer", "train">>)
                 \/ Before(last', <<"exec", "get_trainer">>, <<"trainer", "evaluate">>)
                 \/ Before(last', <<"hit", "get_trainer">>, <<"trainer", "evaluate">>)
       /\ Has(last'.events, <<"trainer", "build_model">>) =>
              \/ Before(last', <<"exec", "get_full_dataset">>, <<"trainer", "build_model">>)
              \/ Before(last', <<"hit", "get_full_dataset">>, <<"trainer", "build_model">>)
       /\ (Executed(last', "get_full_dataset") /\ Invoked(last', "get_trainer")) =>
              ~Has(last'.events, <<"hit", "get_trainer">>)
       /\ (Unconfigured /\ last'.op \in {"train", "test", "get_trainer"}
           /\ (last'.exc = "none" \/ TrainerStarted(last'))) =>
              /\ Executed(last', "get_full_dataset")
              /\ LoadedBuiltStarted(last')]_vars

\* C13: every position test() hands to the evaluation pass is a position of
\* the validation subset: the positions are 0 .. min(10, |validation|) - 1 in
\* order, and the pass does not fail on a missing element.
C13_EvaluatedWithinValidation ==
    (last.op = "test" /\ Has(last.events, <<"trainer", "evaluate">>)) =>
        LET valid == cached_return_value["get_full_dataset"].valid
            n == IF Len(valid) < 10 THEN Len(valid) ELSE 10
        IN  /\ \A i \in DOMAIN last.handed : last.handed[i] < Len(valid)
            /\ last.handed = range(0, n)
            /\ last.exc # "IndexError"

\* C14 (as claimed): when load_checkpoint is configured on the session at the
\* moment train() or test() is called, the trainer they start has its
\* parameters restored from that checkpoint; when it is not configured the call
\* reads no checkpoint.
C14_RestoredAsClaimed ==
    (last.op \in {"train", "test"}) =>
        /\ (load_checkpoint[last.self] # None /\ TrainerStarted(last)) =>
               cached_return_value["get_trainer"].restored = load_checkpoint[last.self]
        /\ load_checkpoint[last.self] = None =>
               ~Has(last.events, <<"trainer", "load_state_dict">>)

\* C14 (amended): a checkpoint is read only by a call that builds the trainer.
\* A call that builds it on a session with load_checkpoint configured restores
\* the parameters from that checkpoint after the model is built and before the
\* trainer is returned or started, or fails with the trainer not started; one
\* that builds it with load_checkpoint not configured reads no checkpoint.
\* train() and test() start the memoized trainer as it was built.
C14_RestoredWhenBuilt ==
    /\ ~Has(last.events, <<"trainer", "build_model">>) =>
           ~Has(last.events, <<"trainer", "load_state_dict">>)
    /\ Has(last.events, <<"trainer", "build_model">>) =>
           IF load_checkpoint[last.self] = None
           THEN /\ ~Has(last.events, <<"trainer", "load_state_dict">>)
                /\ last.exc # "CheckpointError"
                /\ cached_return_value["get_trainer"].restored = None
           ELSE \/ /\ last.exc = "CheckpointError"
                   /\ ~TrainerStarted(last)
                   /\ ~Has(last.events, <<"trainer", "load_state_dict">>)
                \/ /\ Before(last, <<"trainer", "build_model">>,
                             <<"trainer", "load_state_dict">>)
                   /\ cached_return_value["get_trainer"].restored
                          = load_checkpoint[last.self]
                   /\ Has(last.events, <<"trainer", "train">>) =>
                          Before(last, <<"trainer", "load_state_dict">>,
                                 <<"trainer", "train">>)
                   /\ Has(last.events, <<"trainer", "evaluate">>) =>
                          Before(last, <<"trainer", "load_state_dict">>,
                                 <<"trainer", "evaluate">>)
    /\ (last.op \in {"train", "test"} /\ last.exc = "none") =>
           last.ret.trainer = cached_return_value["get_trainer"]

\* train() has built the trainer, restored the checkpoint and started training.
C14_Witness ==
    /\ last.op = "train" /\ last.exc = "none"
    /\ load_checkpoint[last.self] = GoodCheckpoint
    /\ Before(last, <<"trainer", "build_model">>, <<"trainer", "load_state_dict">>)
    /\ Before(last, <<"trainer", "load_state_dict">>, <<"trainer", "train">>)
    /\ last.ret.trainer.restored = GoodCheckpoint

\* C15: when raw sample i fails in a caching pass, the call raises: the pass
\* has built the samples 0..i in order and saved 0..i-1, nothing at or after i
\* is written, and the call returns no dataset, stores no value and registers
\* no wrapper.
C15_FailureStopsPass ==
    [][(PassRan(last') /\ FirstCorrupt(last'.pass.path) < NumRaw(last'.pass.path)) =>
          LET path == last'.pass.path
              i == FirstCorrupt(path)
          IN  /\ last'.exc = "SampleError"
              /\ last'.pass.built = 0..i
              /\ last'.pass.saved = 0..(i - 1)
              /\ processed'[path].written = 0..(i - 1)
              /\ processed'[path].files \ processed'[path].written
                     \subseteq last'.pass.before
              /\ last'.ret = NoValue
              /\ cached_return_value' = cached_return_value
              /\ CACHED_FUNCTIONS' = CACHED_FUNCTIONS]_vars

\* A pass has failed at a sample after the first, with later samples left, while
\* a dataset of an earlier pass is still stored.
C15_Witness ==
    /\ PassRan(last) /\ last.exc = "SampleError"
    /\ last.pass.saved # {}
    /\ last.pass.built # RawIndices(last.pass.path)
    /\ cached_return_value["get_full_dataset"] # NoValue

(***************************************************************************)
(* C16, C18: the memoization layer when bodies raise                       *)
(***************************************************************************)
\* C16: a call in which the body of a wrapper raises ends with that exception
\* and stores nothing for the wrapper, and the next invocation of the wrapper
\* executes the body again.
C16_RaiseMemoizesNothing ==
    [][\A w \in Wrappers :
          /\ (Executed(last', w) /\ hist'[w] = "raised") =>
                 /\ last'.exc # "none"
                 /\ cached_return_value'[w] = cached_return_value[w]
          /\ (hist[w] = "raised" /\ Invoked(last', w)) =>
                 FirstInvocation(last', w) = "exec"]_vars

\* C18: CACHED_FUNCTIONS holds no wrapper twice, and holds exactly the wrappers
\* that would return a stored value (is_called true and a value stored).
C18_RegistryIsMemoized ==
    \A w \in Wrappers :
        /\ Cardinality({i \in DOMAIN CACHED_FUNCTIONS : CACHED_FUNCTIONS[i] = w}) <= 1
        /\ (\E i \in DOMAIN CACHED_FUNCTIONS : CACHED_FUNCTIONS[i] = w)
               <=> (is_called[w] /\ cached_return_value[w] # NoValue)

(***************************************************************************)
(* SpecCommands: run_multiple_commands, utils.py:58-99                     *)
(***************************************************************************)
\* A command is modelled by the exit status it has when bash runs it.
Statuses == {0, 1, 2}
MaxCmds == 3
CmdLists == UNION {[1..n -> Statuses] : n \in 0..MaxCmds}

\* The interpreter running the module: Python 2 or Python 3.
Pythons == {2, 3}

\* bash reading `lines` from its stdin: with `set -e` it exits with the status
\* of the first command that fails, else with the status of the last command
\* (0 when there is none).
BashExit(set_e, lines) ==
    LET failing == {j \in DOMAIN lines : lines[j] # 0} IN
    IF lines = <<>> THEN 0
    ELSE IF set_e /\ failing # {}
    THEN lines[CHOOSE j \in failing : \A l \in failing : j <= l]
    ELSE lines[Len(lines)]

\* line 79: the module defines and imports no is_string, so evaluating the name
\* raises NameError.
is_string_defined == FALSE

\* run_multiple_commands(cmds, env, dry), lines 58-99.  The result records the
\* number of processes spawned, whether `set -e` and which commands were written
\* to the shell's stdin, the exception that ended the call ("none" on a normal
\* return) and the fields of the CalledProcessError raised.
run_multiple_commands(cmds, dry, python) ==
    LET result == [spawned |-> 0, set_e |-> FALSE, sent |-> <<>>, waited |-> FALSE,
                   exc |-> "none", returncode |-> NoValue, cmd |-> NoValue]
    IN
    \* lines 60-62
    IF dry THEN result
    \* lines 64-72: Popen('bash', stdin=PIPE, ...) opens binary pipes
    ELSE LET spawned == [result EXCEPT !.spawned = 1] IN
    \* lines 75-76: a str written to a binary pipe is a TypeError in Python 3
    IF python = 3 THEN [spawned EXCEPT !.exc = "TypeError"]
    ELSE LET started == [spawned EXCEPT !.set_e = TRUE] IN
    \* lines 78-79: the first command evaluates is_string
    IF cmds # <<>> /\ ~is_string_defined
    THEN [started EXCEPT !.exc = "NameError"]
    \* lines 78-92: the commands are written in order, the output is read
    \* and the shell waited for
    ELSE LET done == [started EXCEPT !.sent = cmds, !.waited = TRUE]
             returncode == BashExit(TRUE, cmds)
         IN
         \* lines 95-96
         IF returncode = 0 THEN done
         \* lines 97-98: CalledProcessError(returncode, cmd) is given
         \* (cmd, returncode); cmd is the loop variable of line 78
         ELSE IF cmds = <<>> THEN [done EXCEPT !.exc = "UnboundLocalError"]
         ELSE [done EXCEPT !.exc = "CalledProcessError",
                           !.returncode = cmds[Len(cmds)],
                           !.cmd = returncode]

InitCommands ==
    /\ cmd_in \in [cmds : CmdLists, dry : BOOLEAN, python : Pythons]
    /\ cmd_out = NoValue
    /\ SessionIdle
    /\ SplitIdle
    /\ GraphIdle

RunMultipleCommands ==
    /\ cmd_out = NoValue
    /\ cmd_out' = run_multiple_commands(cmd_in.cmds, cmd_in.dry, cmd_in.python)
    /\ UNCHANGED <<cmd_in, sessionVars, splitVars, graphVars>>

NextCommands == RunMultipleCommands

SpecCommands == InitCommands /\ [][NextCommands]_vars

\* C17: with dry=True no process is spawned and the call returns; with
\* dry=False and a non-empty command list, one shell is spawned, gets the
\* commands in the given order, each once, and the call returns normally if and
\* only if the shell exits with status 0, else raises CalledProcessError
\* reporting that status.
C17_CommandsRun ==
    cmd_out # NoValue =>
        /\ cmd_in.dry => (cmd_out.spawned = 0 /\ cmd_out.exc = "none")
        /\ (~cmd_in.dry /\ cmd_in.cmds # <<>>) =>
               LET status == BashExit(TRUE, cmd_in.cmds) IN
               /\ cmd_out.spawned = 1
               /\ cmd_out.sent = cmd_in.cmds
               /\ cmd_out.exc = "none" <=> status = 0
               /\ status # 0 =>
                      /\ cmd_out.exc = "CalledProcessError"
                      /\ cmd_out.returncode = status

====
